---- MODULE Spec2Model ----
(***************************************************************************)
(* Frame DMA engine of litevideo/input/dma.py (class DMA with its          *)
(* _SlotArray and _Slot), modelled cycle by cycle.                         *)
(*                                                                         *)
(* One Tick step is one rising edge of the sys clock: every synchronous    *)
(* assignment of dma.py is evaluated on the values of the current cycle.   *)
(* The consumer (CPU) reaches the CSR registers through the CSR bus, one   *)
(* register write per cycle: CsrWrite* steps, at most one between two      *)
(* edges.  The combinatorial signals of the source are state functions     *)
(* with the names they have in the source.                                 *)
(***************************************************************************)
EXTENDS Integers, Sequences, FiniteSets, TLC

\* capacity of the write-data FIFO of the bus accessor
FifoDepth == 2

\* words the AsyncFIFO of the HDMIIn bridge holds (fifo_depth, scaled down)
BridgeDepth == 2

\* HDMIIn constructor default
n_dma_slots == 2

\* The build-time parameters of DMA(dram_port, nslots): the number of slots
\* and bus_aw = dram_port.aw, the width of a word address.  A behaviour is one
\* build; the builds explored are a three-slot engine over a two-word memory
\* and a one-slot engine over a four-word memory.
Configs == { [nslots |-> 3, bus_aw |-> 1], [nslots |-> 1, bus_aw |-> 2] }

\* _status = CSRStorage(2): EMPTY=0 LOADED=1 PENDING=2, bit 0 is address_valid
NamedStatus == {0, 1, 2}
\* what became of the upstream word of a cycle
WordFates == {"none", "held", "dropped", "written"}
States == {"WAIT_SOF", "TRANSFER_PIXELS", "EOF"}
NoDone == [slot |-> -1]

VARIABLES
    nslots,            \* constructor parameter nslots
    bus_aw,            \* constructor parameter dram_port.aw
    status,            \* _Slot._status.storage, per slot
    address,           \* _Slot._address.storage, per slot
    frame_size,        \* DMA._frame_size.storage
    current_slot,      \* _SlotArray current_slot
    current_address,   \* DMA address generator
    mwords_remaining,  \* DMA address generator
    fsm,               \* DMA.fsm state
    wfifo,             \* words accepted by the bus accessor, not yet drained
    frame_valid,       \* self.frame.valid in this cycle
    frame_sof,         \* self.frame.sof in this cycle
    cmd_ready,         \* command path of the write port ready in this cycle
    bus_we,            \* a CSR bus write has landed since the last edge
    seed_slot,         \* history: current_slot at the WAIT_SOF->TRANSFER_PIXELS edge
    base,              \* history: slot address at that edge
    fwc,               \* history: frame_size at that edge
    writes,            \* history: addresses written in this frame transfer
    seed_touched,      \* history: consumer wrote seed slot's status since that edge
    eof_wait,          \* history: EOF has waited for the transport to drain
    done_ev,           \* history: the completion event of the last edge, if any
    last_in,           \* history: fate of the upstream word at the last edge
    address_valid_storage,  \* DMA_poll.address_valid.storage
    start_address,          \* DMA_poll._start_address.storage
    dma_go,                 \* DMA_poll.dma_go
    dma_go_re,              \* DMA_poll._dma_go.re: a write to the go register
                            \* has landed since the last edge
    last_count_snapshot_r,  \* DMA_poll last_count_snapshot_r
    last_count_holding,     \* DMA_poll.last_count_holding
    go_credit,         \* history: go was written since the last frame start
    hi0_vsync,         \* HDMIIn: decoder output vsync in this pix cycle
    hi0_valid,         \* HDMIIn: decoder output valid in this pix cycle
    vsync_r,           \* HDMIIn: vsync_r
    sink_sof,          \* HDMIIn: fifo.sink.sof
    fifo,              \* HDMIIn: sof tags of the words in the AsyncFIFO, oldest first
    edges_pending,     \* history: rising vsync edges not yet answered by a sof word
    sof_due,           \* history: no word was written since the last rising edge
    lost,              \* history: the FIFO refused a valid word since that edge
    passed,            \* history: transfers completed while the last slot waited
    passed_quiet       \* history: the same, since the last arming of another slot

vars == <<nslots, bus_aw, status, address, frame_size, current_slot, current_address,
          mwords_remaining, fsm, wfifo, frame_valid, frame_sof, cmd_ready,
          bus_we, seed_slot, base, fwc, writes, seed_touched, eof_wait, done_ev, last_in,
          address_valid_storage, start_address, dma_go, dma_go_re,
          last_count_snapshot_r, last_count_holding, go_credit,
          hi0_vsync, hi0_valid, vsync_r, sink_sof, fifo, edges_pending,
          sof_due, lost, passed, passed_quiet>>

hist == <<seed_slot, base, fwc, writes, seed_touched, eof_wait, done_ev, last_in>>

conf == <<nslots, bus_aw>>

\* registers of the DMA variant: the slot array
slotv == <<status, address, current_slot, seed_slot, seed_touched>>

\* registers of the DMA_poll variant
pollv == <<address_valid_storage, start_address, dma_go, dma_go_re,
           last_count_snapshot_r, last_count_holding, go_credit>>

\* signals of the HDMIIn bypass bridge (pix clock domain)
bridgev == <<hi0_vsync, hi0_valid, vsync_r, sink_sof, fifo, edges_pending,
             sof_due, lost>>

starvev == <<passed, passed_quiet>>

Slots == 0 .. (nslots - 1)
AddrMod == 2 ^ bus_aw
Addrs == 0 .. (AddrMod - 1)
\* values the consumer writes to a status register: the three named ones, and
\* in the one-slot build also 3 (both bits)
StatusVals == IF nslots = 1 THEN 0 .. 3 ELSE NamedStatus

----------------------------------------------------------------------------
\* _Slot: address_valid.eq(_status.storage[0])
slot_address_valid(n) == status[n] % 2 = 1

\* _SlotArray: address_valid / address of the current slot
address_valid == slot_address_valid(current_slot)
slot_array_address == address[current_slot]

\* address generator
last_word == mwords_remaining = 1

\* variant: publishes the address of the last word written
address_reached_last_written == (current_address - 1) % AddrMod

address_reached == current_address

\* bus accessor (LiteDRAMDMAWriter): sink.ready, and the port's wdata.valid
sink_ready == cmd_ready /\ wfifo < FifoDepth
wdata_valid == wfifo > 0

\* control FSM outputs
reset_words == fsm = "WAIT_SOF"

\* variant: WAIT_SOF is ready only for words that are not start-of-frame
frame_ready_sof_only ==
    CASE fsm = "WAIT_SOF" -> ~frame_sof
      [] fsm = "TRANSFER_PIXELS" -> sink_ready
      [] OTHER -> FALSE

\* variant: TRANSFER_PIXELS accepts a word whether or not the bus accessor is ready
frame_ready_ignores_sink ==
    CASE fsm = "WAIT_SOF" -> (~address_valid) \/ (~frame_sof)
      [] fsm = "TRANSFER_PIXELS" -> TRUE
      [] OTHER -> FALSE

frame_ready ==
    CASE fsm = "WAIT_SOF" -> (~address_valid) \/ (~frame_sof)
      [] fsm = "TRANSFER_PIXELS" -> sink_ready
      [] OTHER -> FALSE

sink_valid == fsm = "TRANSFER_PIXELS" /\ frame_valid

count_word == sink_valid /\ sink_ready

\* variant: EOF completes without waiting for the write data to drain
address_done_no_drain == fsm = "EOF"

address_done == fsm = "EOF" /\ ~wdata_valid

\* variant: WAIT_SOF starts a transfer without a valid current slot
next_fsm_no_valid ==
    CASE fsm = "WAIT_SOF" ->
            IF frame_sof /\ frame_valid
            THEN "TRANSFER_PIXELS" ELSE "WAIT_SOF"
      [] fsm = "TRANSFER_PIXELS" ->
            IF count_word /\ last_word THEN "EOF" ELSE "TRANSFER_PIXELS"
      [] OTHER ->
            IF address_done THEN "WAIT_SOF" ELSE "EOF"

\* variant: TRANSFER_PIXELS is abandoned when the current slot is not valid
next_fsm_cancels ==
    CASE fsm = "WAIT_SOF" ->
            IF address_valid /\ frame_sof /\ frame_valid
            THEN "TRANSFER_PIXELS" ELSE "WAIT_SOF"
      [] fsm = "TRANSFER_PIXELS" ->
            IF ~address_valid THEN "WAIT_SOF"
            ELSE IF count_word /\ last_word THEN "EOF" ELSE "TRANSFER_PIXELS"
      [] OTHER ->
            IF address_done THEN "WAIT_SOF" ELSE "EOF"

next_fsm ==
    CASE fsm = "WAIT_SOF" ->
            IF address_valid /\ frame_sof /\ frame_valid
            THEN "TRANSFER_PIXELS" ELSE "WAIT_SOF"
      [] fsm = "TRANSFER_PIXELS" ->
            IF count_word /\ last_word THEN "EOF" ELSE "TRANSFER_PIXELS"
      [] OTHER ->
            IF address_done THEN "WAIT_SOF" ELSE "EOF"

\* _SlotArray arbitration
change_slot == (~address_valid) \/ address_done

\* variant: the If list built from the lowest slot to the highest (no
\* reversed()), so the highest valid slot wins
RECURSIVE SlotScanNotReversed(_, _)
SlotScanNotReversed(n, acc) ==
    IF slot_address_valid(n) THEN n
    ELSE IF n = 0 THEN acc ELSE SlotScanNotReversed(n - 1, acc)

\* the If list is built from the highest slot to the lowest; in a sync block
\* the last assignment that executes wins
RECURSIVE SlotScan(_, _)
SlotScan(n, acc) ==
    LET nxt == IF slot_address_valid(n) THEN n ELSE acc
    IN  IF n = 0 THEN nxt ELSE SlotScan(n - 1, nxt)

next_current_slot ==
    IF change_slot THEN SlotScan(nslots - 1, current_slot) ELSE current_slot

\* variant: address_done reaches every slot
slot_address_done_any(n) == address_done

\* _Slot: _status.we / _address.we = address_done of that slot
slot_address_done(n) == address_done /\ current_slot = n

\* variant: completion does not touch the status register
next_status_never_pending(n) == status[n]

\* variant: completion sets the Pending bit and leaves the Loaded bit set
next_status_keeps_loaded(n) == IF slot_address_done(n) THEN 3 ELSE status[n]

next_status(n) == IF slot_address_done(n) THEN 2 ELSE status[n]

\* variant: address_reached is stored in every slot's address register
next_address_every_slot(n) == IF address_done THEN address_reached ELSE address[n]

next_address(n) == IF slot_address_done(n) THEN address_reached ELSE address[n]

\* variant: a start-of-frame word re-seeds the address generator in any state
next_current_address_sof_reseeds ==
    IF reset_words \/ (frame_valid /\ frame_sof) THEN slot_array_address
    ELSE IF count_word THEN (current_address + 1) % AddrMod
    ELSE current_address

next_current_address ==
    IF reset_words THEN slot_array_address
    ELSE IF count_word THEN (current_address + 1) % AddrMod
    ELSE current_address

next_mwords_remaining ==
    IF reset_words THEN frame_size
    ELSE IF count_word THEN (mwords_remaining - 1) % AddrMod
    ELSE mwords_remaining

----------------------------------------------------------------------------
\* reset values of the DMA_poll registers
PollReset ==
    /\ address_valid_storage = FALSE
    /\ start_address = 0
    /\ dma_go = FALSE
    /\ dma_go_re = FALSE
    /\ last_count_snapshot_r = FALSE
    /\ last_count_holding = 0
    /\ go_credit = FALSE

\* reset values of the bridge registers, decoder idle
BridgeReset ==
    /\ hi0_vsync = FALSE
    /\ hi0_valid = FALSE
    /\ vsync_r = FALSE
    /\ sink_sof = FALSE
    /\ fifo = << >>
    /\ edges_pending = 0
    /\ sof_due = FALSE
    /\ lost = FALSE

Init ==
    /\ \E c \in Configs : nslots = c.nslots /\ bus_aw = c.bus_aw
    /\ status = [n \in Slots |-> 0]
    /\ address = [n \in Slots |-> 0]
    /\ frame_size = 0
    /\ current_slot = 0
    /\ current_address = 0
    /\ mwords_remaining = 0
    /\ fsm = "WAIT_SOF"
    /\ wfifo = 0
    /\ frame_valid \in BOOLEAN
    /\ frame_sof \in BOOLEAN
    /\ (~frame_valid => ~frame_sof)
    /\ cmd_ready = TRUE
    /\ bus_we = FALSE
    /\ seed_slot = 0
    /\ base = 0
    /\ fwc = 0
    /\ writes = << >>
    /\ seed_touched = FALSE
    /\ eof_wait = FALSE
    /\ done_ev = NoDone
    /\ last_in = "none"
    /\ PollReset
    /\ BridgeReset
    /\ passed = 0
    /\ passed_quiet = 0

\* the frame transfer starts on this edge
start_frame == fsm = "WAIT_SOF" /\ next_fsm = "TRANSFER_PIXELS"

\* one rising clock edge of the DMA variant
Edge ==
    /\ UNCHANGED conf
    /\ fsm' = next_fsm
    /\ current_slot' = next_current_slot
    /\ current_address' = next_current_address
    /\ mwords_remaining' = next_mwords_remaining
    /\ status' = [n \in Slots |-> next_status(n)]
    /\ address' = [n \in Slots |-> next_address(n)]
    /\ frame_size' = frame_size
    /\ \E wdata_ready \in BOOLEAN :
          wfifo' = wfifo + (IF count_word THEN 1 ELSE 0)
                         - (IF wdata_valid /\ wdata_ready THEN 1 ELSE 0)
    \* the upstream holds a word until it is accepted
    /\ IF frame_valid /\ ~frame_ready
       THEN /\ frame_valid' = frame_valid
            /\ frame_sof' = frame_sof
       ELSE /\ frame_valid' \in BOOLEAN
            /\ frame_sof' \in BOOLEAN
            /\ (~frame_valid' => ~frame_sof')
    \* sink.ready is sampled in TRANSFER_PIXELS only
    /\ IF next_fsm = "TRANSFER_PIXELS"
       THEN cmd_ready' \in BOOLEAN
       ELSE cmd_ready' = TRUE
    /\ bus_we' = FALSE
    /\ seed_slot' = IF start_frame THEN current_slot
                    ELSE IF address_done THEN 0 ELSE seed_slot
    /\ base' = IF start_frame THEN slot_array_address
               ELSE IF address_done THEN 0 ELSE base
    /\ fwc' = IF start_frame THEN frame_size
              ELSE IF address_done THEN 0 ELSE fwc
    /\ writes' = IF start_frame \/ address_done THEN << >>
                 ELSE IF count_word THEN Append(writes, current_address)
                 ELSE writes
    /\ seed_touched' = IF start_frame \/ address_done THEN FALSE ELSE seed_touched
    /\ eof_wait' = (fsm = "EOF" /\ wdata_valid)
    /\ done_ev' = IF address_done
                  THEN [slot |-> current_slot, seed |-> seed_slot, base |-> base,
                        fwc |-> fwc, count |-> Len(writes),
                        last |-> writes[Len(writes)], waited |-> eof_wait]
                  ELSE NoDone
    /\ last_in' = IF ~frame_valid THEN "none"
                  ELSE IF ~frame_ready THEN "held"
                  ELSE IF count_word THEN "written" ELSE "dropped"

Tick == Edge /\ UNCHANGED <<pollv, bridgev, starvev>>

\* consumer: CSR bus write to slot n's status register
WriteStatus(n, v) ==
    /\ ~bus_we
    /\ bus_we' = TRUE
    /\ status' = [status EXCEPT ![n] = v]
    /\ seed_touched' = (seed_touched \/ (fsm # "WAIT_SOF" /\ n = seed_slot))
    /\ UNCHANGED <<conf, address, frame_size, current_slot, current_address,
                   mwords_remaining, fsm, wfifo, frame_valid, frame_sof,
                   cmd_ready, seed_slot, base, fwc, writes, eof_wait, done_ev, last_in>>

CsrWriteStatus(n, v) == WriteStatus(n, v) /\ UNCHANGED <<pollv, bridgev, starvev>>

\* consumer: CSR bus write to slot n's address register
CsrWriteAddress(n, a) ==
    /\ ~bus_we
    /\ bus_we' = TRUE
    /\ address' = [address EXCEPT ![n] = a]
    /\ UNCHANGED <<conf, status, frame_size, current_slot, current_address,
                   mwords_remaining, fsm, wfifo, frame_valid, frame_sof,
                   cmd_ready, hist, pollv, bridgev, starvev>>

\* consumer: CSR bus write to the frame_size register
CsrWriteFrameSize(f) ==
    /\ ~bus_we
    /\ bus_we' = TRUE
    /\ frame_size' = f
    /\ UNCHANGED <<conf, status, address, current_slot, current_address,
                   mwords_remaining, fsm, wfifo, frame_valid, frame_sof,
                   cmd_ready, hist, pollv, bridgev, starvev>>

Next ==
    \/ Tick
    \/ \E n \in Slots, v \in StatusVals : CsrWriteStatus(n, v)
    \/ \E n \in Slots, a \in Addrs : CsrWriteAddress(n, a)
    \/ \E f \in Addrs : CsrWriteFrameSize(f)

Spec == Init /\ [][Next]_vars

----------------------------------------------------------------------------
\* DMA_poll: the variant with one start address, an address_valid register
\* and a go register in place of the slot array. Address generator, bus
\* accessor and the TRANSFER_PIXELS / EOF states are those of DMA.

\* DMA_poll has no slot array
PollConfigs == { [nslots |-> 0, bus_aw |-> 2] }

\* start addresses the consumer writes: the lowest and the highest word
StartAddrs == {0, AddrMod - 1}

poll_frame_ready ==
    CASE fsm = "WAIT_SOF" -> (~address_valid_storage) \/ (~frame_sof)
      [] fsm = "TRANSFER_PIXELS" -> sink_ready
      [] OTHER -> FALSE

\* variant: WAIT_SOF does not wait for go
poll_next_fsm_no_go ==
    CASE fsm = "WAIT_SOF" ->
            IF address_valid_storage /\ frame_sof /\ frame_valid
            THEN "TRANSFER_PIXELS" ELSE "WAIT_SOF"
      [] fsm = "TRANSFER_PIXELS" ->
            IF count_word /\ last_word THEN "EOF" ELSE "TRANSFER_PIXELS"
      [] OTHER ->
            IF ~wdata_valid THEN "WAIT_SOF" ELSE "EOF"

poll_next_fsm ==
    CASE fsm = "WAIT_SOF" ->
            IF address_valid_storage /\ frame_sof /\ frame_valid /\ dma_go
            THEN "TRANSFER_PIXELS" ELSE "WAIT_SOF"
      [] fsm = "TRANSFER_PIXELS" ->
            IF count_word /\ last_word THEN "EOF" ELSE "TRANSFER_PIXELS"
      [] OTHER ->
            IF ~wdata_valid THEN "WAIT_SOF" ELSE "EOF"

last_count_snapshot == fsm = "EOF" /\ ~wdata_valid

poll_next_current_address ==
    IF reset_words THEN start_address
    ELSE IF count_word THEN (current_address + 1) % AddrMod
    ELSE current_address

\* variant: go is never cleared
next_dma_go_sticky == dma_go_re \/ dma_go

next_dma_go ==
    IF dma_go_re THEN TRUE
    ELSE IF last_word THEN FALSE
    ELSE dma_go

\* variant: the holding register follows the address generator in EOF
next_last_count_holding_level ==
    IF fsm = "EOF" THEN current_address ELSE last_count_holding

next_last_count_holding ==
    IF last_count_snapshot /\ ~last_count_snapshot_r THEN current_address
    ELSE last_count_holding

PollInit ==
    /\ \E c \in PollConfigs : nslots = c.nslots /\ bus_aw = c.bus_aw
    /\ status = [n \in Slots |-> 0]
    /\ address = [n \in Slots |-> 0]
    /\ frame_size = 0
    /\ current_slot = 0
    /\ current_address = 0
    /\ mwords_remaining = 0
    /\ fsm = "WAIT_SOF"
    /\ wfifo = 0
    /\ frame_valid \in BOOLEAN
    /\ frame_sof \in BOOLEAN
    /\ (~frame_valid => ~frame_sof)
    /\ cmd_ready = TRUE
    /\ bus_we = FALSE
    /\ seed_slot = 0
    /\ base = 0
    /\ fwc = 0
    /\ writes = << >>
    /\ seed_touched = FALSE
    /\ eof_wait = FALSE
    /\ done_ev = NoDone
    /\ last_in = "none"
    /\ PollReset
    /\ BridgeReset
    /\ passed = 0
    /\ passed_quiet = 0

poll_start_frame == fsm = "WAIT_SOF" /\ poll_next_fsm = "TRANSFER_PIXELS"

\* one rising clock edge of the DMA_poll variant
PollTick ==
    /\ UNCHANGED <<conf, slotv, bridgev, starvev>>
    /\ UNCHANGED <<frame_size, start_address, address_valid_storage>>
    /\ fsm' = poll_next_fsm
    /\ current_address' = poll_next_current_address
    /\ mwords_remaining' = next_mwords_remaining
    /\ last_count_snapshot_r' = last_count_snapshot
    /\ last_count_holding' = next_last_count_holding
    /\ dma_go' = next_dma_go
    /\ dma_go_re' = FALSE
    /\ \E wdata_ready \in BOOLEAN :
          wfifo' = wfifo + (IF count_word THEN 1 ELSE 0)
                         - (IF wdata_valid /\ wdata_ready THEN 1 ELSE 0)
    /\ IF frame_valid /\ ~poll_frame_ready
       THEN /\ frame_valid' = frame_valid
            /\ frame_sof' = frame_sof
       ELSE /\ frame_valid' \in BOOLEAN
            /\ frame_sof' \in BOOLEAN
            /\ (~frame_valid' => ~frame_sof')
    /\ IF poll_next_fsm = "TRANSFER_PIXELS"
       THEN cmd_ready' \in BOOLEAN
       ELSE cmd_ready' = TRUE
    /\ bus_we' = FALSE
    /\ go_credit' = IF poll_start_frame THEN FALSE ELSE go_credit
    /\ base' = IF poll_start_frame THEN start_address
               ELSE IF last_count_snapshot THEN 0 ELSE base
    /\ fwc' = IF poll_start_frame THEN frame_size
              ELSE IF last_count_snapshot THEN 0 ELSE fwc
    /\ writes' = IF poll_start_frame \/ last_count_snapshot THEN << >>
                 ELSE IF count_word THEN Append(writes, current_address)
                 ELSE writes
    /\ eof_wait' = (fsm = "EOF" /\ wdata_valid)
    /\ done_ev' = IF last_count_snapshot
                  THEN [slot |-> 0, seed |-> 0, base |-> base,
                        fwc |-> fwc, count |-> Len(writes),
                        last |-> writes[Len(writes)], waited |-> eof_wait]
                  ELSE NoDone
    /\ last_in' = IF ~frame_valid THEN "none"
                  ELSE IF ~poll_frame_ready THEN "held"
                  ELSE IF count_word THEN "written" ELSE "dropped"

\* consumer: CSR bus write to the address_valid register
CsrWriteAddressValid(v) ==
    /\ ~bus_we
    /\ bus_we' = TRUE
    /\ address_valid_storage' = v
    /\ UNCHANGED <<conf, slotv, bridgev, starvev, frame_size, current_address,
                   mwords_remaining, fsm, wfifo, frame_valid, frame_sof, cmd_ready,
                   base, fwc, writes, eof_wait, done_ev, last_in,
                   start_address, dma_go, dma_go_re, last_count_snapshot_r,
                   last_count_holding, go_credit>>

\* consumer: CSR bus write to the start_address register
CsrWriteStartAddress(a) ==
    /\ ~bus_we
    /\ bus_we' = TRUE
    /\ start_address' = a
    /\ UNCHANGED <<conf, slotv, bridgev, starvev, frame_size, current_address,
                   mwords_remaining, fsm, wfifo, frame_valid, frame_sof, cmd_ready,
                   base, fwc, writes, eof_wait, done_ev, last_in,
                   address_valid_storage, dma_go, dma_go_re, last_count_snapshot_r,
                   last_count_holding, go_credit>>

\* consumer: CSR bus write to the go register; the strobe does not depend on
\* the value written
CsrWriteGo ==
    /\ ~bus_we
    /\ bus_we' = TRUE
    /\ dma_go_re' = TRUE
    /\ go_credit' = TRUE
    /\ UNCHANGED <<conf, slotv, bridgev, starvev, frame_size, current_address,
                   mwords_remaining, fsm, wfifo, frame_valid, frame_sof, cmd_ready,
                   base, fwc, writes, eof_wait, done_ev, last_in,
                   address_valid_storage, start_address, dma_go,
                   last_count_snapshot_r, last_count_holding>>

PollNext ==
    \/ PollTick
    \/ \E v \in BOOLEAN : CsrWriteAddressValid(v)
    \/ \E a \in StartAddrs : CsrWriteStartAddress(a)
    \/ \E f \in Addrs : CsrWriteFrameSize(f)
    \/ CsrWriteGo

SpecPoll == PollInit /\ [][PollNext]_vars

\* a build of either variant
EnginesInit == Init \/ PollInit

EnginesNext ==
    \/ nslots > 0 /\ Tick
    \/ nslots > 0 /\ \E n \in Slots, v \in StatusVals : CsrWriteStatus(n, v)
    \/ nslots > 0 /\ \E n \in Slots, a \in Addrs : CsrWriteAddress(n, a)
    \/ \E f \in Addrs : CsrWriteFrameSize(f)
    \/ nslots = 0 /\ PollTick
    \/ nslots = 0 /\ \E v \in BOOLEAN : CsrWriteAddressValid(v)
    \/ nslots = 0 /\ \E a \in StartAddrs : CsrWriteStartAddress(a)
    \/ nslots = 0 /\ CsrWriteGo

SpecEngines == EnginesInit /\ [][EnginesNext]_vars

----------------------------------------------------------------------------
\* HDMIIn, bypass path: start-of-frame detection in the pix domain and the
\* AsyncFIFO towards the DMA. The decoder outputs hi0_vsync and hi0_valid are
\* inputs; the read side of the FIFO takes words at its own pace.

new_frame == hi0_vsync /\ ~vsync_r

\* AsyncFIFO: sink.ready while not full; sink.valid is hi0_valid
fifo_sink_ready == Len(fifo) < BridgeDepth
fifo_write == hi0_valid /\ fifo_sink_ready

\* variant: the tag follows the level of vsync
next_sink_sof_level ==
    IF hi0_vsync THEN TRUE
    ELSE IF hi0_valid THEN FALSE
    ELSE sink_sof

next_sink_sof ==
    IF new_frame THEN TRUE
    ELSE IF hi0_valid THEN FALSE
    ELSE sink_sof

BridgeInit ==
    /\ nslots = n_dma_slots
    /\ bus_aw = 1
    /\ status = [n \in Slots |-> 0]
    /\ address = [n \in Slots |-> 0]
    /\ frame_size = 0
    /\ current_slot = 0
    /\ current_address = 0
    /\ mwords_remaining = 0
    /\ fsm = "WAIT_SOF"
    /\ wfifo = 0
    /\ frame_valid = FALSE
    /\ frame_sof = FALSE
    /\ cmd_ready = TRUE
    /\ bus_we = FALSE
    /\ seed_slot = 0
    /\ base = 0
    /\ fwc = 0
    /\ writes = << >>
    /\ seed_touched = FALSE
    /\ eof_wait = FALSE
    /\ done_ev = NoDone
    /\ last_in = "none"
    /\ PollReset
    /\ BridgeReset
    /\ passed = 0
    /\ passed_quiet = 0

\* one rising edge of the pix clock
PixTick ==
    /\ vsync_r' = hi0_vsync
    /\ sink_sof' = next_sink_sof
    /\ fifo' = IF fifo_write THEN Append(fifo, sink_sof) ELSE fifo
    /\ hi0_vsync' \in BOOLEAN
    /\ hi0_valid' \in BOOLEAN
    /\ LET answered == IF fifo_write /\ sink_sof /\ edges_pending > 0
                       THEN edges_pending - 1 ELSE edges_pending
           raised == IF new_frame THEN answered + 1 ELSE answered
       IN  edges_pending' = IF raised > 2 THEN 2 ELSE raised
    /\ sof_due' = IF new_frame THEN TRUE
                  ELSE IF fifo_write THEN FALSE ELSE sof_due
    /\ lost' = IF new_frame THEN FALSE
               ELSE IF hi0_valid /\ ~fifo_sink_ready THEN TRUE ELSE lost
    /\ UNCHANGED <<conf, slotv, pollv, starvev, frame_size, current_address,
                   mwords_remaining, fsm, wfifo, frame_valid, frame_sof, cmd_ready,
                   bus_we, base, fwc, writes, eof_wait, done_ev, last_in>>

\* the read side takes the oldest word
FifoRead ==
    /\ fifo # << >>
    /\ fifo' = Tail(fifo)
    /\ UNCHANGED <<conf, slotv, pollv, starvev, frame_size, current_address,
                   mwords_remaining, fsm, wfifo, frame_valid, frame_sof, cmd_ready,
                   bus_we, base, fwc, writes, eof_wait, done_ev, last_in,
                   hi0_vsync, hi0_valid, vsync_r, sink_sof, edges_pending,
                   sof_due, lost>>

BridgeNext == PixTick \/ FifoRead

SpecBridge == BridgeInit /\ [][BridgeNext]_vars

----------------------------------------------------------------------------
\* Waiting time of the lowest-priority slot: the three-slot DMA build in
\* which the consumer writes status registers only, with two counters of the
\* transfers completed while the last slot is Loaded and is not the current
\* slot.

WatchedSlot == nslots - 1

\* counters stop one past the slot count
PassedCap == nslots + 1

StarveInit == Init /\ nslots > 1

\* the watched slot is Loaded and is not the current slot after this edge
waiting_next == next_status(WatchedSlot) % 2 = 1 /\ next_current_slot # WatchedSlot

StarveTick ==
    /\ Edge
    /\ passed' = IF ~waiting_next THEN 0
                 ELSE IF address_done /\ passed < PassedCap THEN passed + 1
                 ELSE passed
    /\ passed_quiet' = IF ~waiting_next THEN 0
                       ELSE IF address_done /\ passed_quiet < PassedCap
                            THEN passed_quiet + 1
                       ELSE passed_quiet
    /\ UNCHANGED <<pollv, bridgev>>

\* a status write that sets the Loaded bit of another slot restarts the
\* second counter
StarveWriteStatus(n, v) ==
    /\ WriteStatus(n, v)
    /\ passed' = passed
    /\ passed_quiet' = IF n # WatchedSlot /\ v % 2 = 1 THEN 0 ELSE passed_quiet
    /\ UNCHANGED <<pollv, bridgev>>

StarveNext ==
    \/ StarveTick
    \/ \E n \in Slots, v \in StatusVals : StarveWriteStatus(n, v)

SpecStarve == StarveInit /\ [][StarveNext]_vars

----------------------------------------------------------------------------
\* The multi-slot DMA build under status writes, with a clock that keeps
\* ticking, an upstream that keeps delivering words, and a transport that is
\* ready again and again and drains its write data.

LiveInit == Init /\ nslots > 1

LiveNext ==
    \/ Tick
    \/ \E n \in Slots, v \in StatusVals : CsrWriteStatus(n, v)

Fairness ==
    /\ WF_vars(Tick)
    /\ WF_vars(Tick /\ frame_valid')
    /\ WF_vars(Tick /\ cmd_ready' /\ wfifo' < FifoDepth)
    /\ WF_vars(Tick /\ wfifo' < wfifo)

SpecLive == LiveInit /\ [][LiveNext]_vars /\ Fairness

TypeOK ==
    /\ [nslots |-> nslots, bus_aw |-> bus_aw] \in Configs
    /\ status \in [Slots -> StatusVals]
    /\ address \in [Slots -> Addrs]
    /\ frame_size \in Addrs
    /\ current_slot \in Slots
    /\ current_address \in Addrs
    /\ mwords_remaining \in Addrs
    /\ fsm \in States
    /\ wfifo \in 0 .. FifoDepth

----------------------------------------------------------------------------
\* A step that is a clock edge (a CSR write sets bus_we, an edge clears it)
TickStep == bus_we' = FALSE

Loaded(n) == status[n] % 2 = 1

Min(S) == CHOOSE x \in S : \A y \in S : x <= y

\* the addresses base, base+1, ..., base+k-1 in the address width
Ascending(b, k) == [i \in 1 .. k |-> (b + i - 1) % AddrMod]

\* C1 (as stated): every write is issued in a cycle where the slot that seeded
\* the frame transfer is Loaded, whatever the consumer writes and when.
C1_WriteOnlyWhileLoaded == count_word => Loaded(seed_slot)

\* C1 (amended): the transfer is seeded from a slot that is Loaded at the
\* WAIT_SOF -> TRANSFER_PIXELS edge, and a write is issued with the seeding
\* slot still Loaded unless the consumer has rewritten that slot's status
\* register since the transfer started.
C1_WriteLoadedUnlessRewritten ==
    /\ start_frame => Loaded(current_slot)
    /\ count_word => (Loaded(seed_slot) \/ seed_touched)

C1_Witness ==
    /\ count_word
    /\ Len(writes) >= 1
    /\ Loaded(seed_slot)
    /\ ~seed_touched
    /\ bus_we
    /\ \E n \in Slots : n # seed_slot /\ status[n] = 1

\* C2: when a frame transfer has committed its last word (state EOF), the
\* addresses written are exactly base, base+1, ..., base+frame_word_count-1
\* and their number is frame_word_count.
C2_ExactAddressSequence ==
    fsm = "EOF" => (Len(writes) = fwc /\ writes = Ascending(base, fwc))

\* C3: a clock edge turns a slot's status into Pending only from state EOF,
\* after the last word was committed, in a cycle where nothing accepted by
\* the write transport is still waiting to be drained.
C3_DrainBeforePending ==
    [][ (TickStep /\ \E n \in Slots : status'[n] = 2 /\ status[n] # 2)
        => (/\ fsm = "EOF"
            /\ wfifo = 0
            /\ ~wdata_valid
            /\ Len(writes) >= 1
            /\ mwords_remaining = 0
            /\ fsm' = "WAIT_SOF") ]_vars

C3_Witness ==
    /\ done_ev # NoDone
    /\ ~bus_we
    /\ status[done_ev.slot] = 2
    /\ done_ev.waited

\* C4: when arbitration runs (change_slot), the next current_slot is the
\* lowest-indexed Loaded slot; with no slot Loaded current_slot is unchanged
\* and address_valid stays false.  With slots 0 and 2 Loaded and slot 1 Empty
\* slot 0 is selected, with slot 0 Pending and slot 2 Loaded slot 2.
C4_LowestLoadedWins ==
    [][ (TickStep /\ change_slot)
        => LET L == {n \in Slots : Loaded(n)}
           IN  /\ IF L = {}
                  THEN current_slot' = current_slot /\ ~address_valid'
                  ELSE current_slot' = Min(L)
               /\ (nslots = 3 /\ status[0] = 1 /\ status[1] = 0 /\ status[2] = 1)
                     => current_slot' = 0
               /\ (nslots = 3 /\ status[0] = 2 /\ status[1] = 0 /\ status[2] = 1)
                     => current_slot' = 2
      ]_vars

C4_Witness ==
    /\ nslots = 3
    /\ done_ev # NoDone
    /\ done_ev.slot = 0 /\ done_ev.seed = 0
    /\ ~bus_we
    /\ status[0] = 2 /\ status[1] = 0 /\ status[2] = 1
    /\ current_slot = 0
    /\ change_slot

\* C5: from the edge that enters TRANSFER_PIXELS until address_done,
\* current_slot is the slot the transfer started with.
C5_SlotLatched == fsm # "WAIT_SOF" => current_slot = seed_slot

\* C6 (as stated): the address_reached published on completion is the last
\* address written in that frame, base + frame_word_count - 1.
C6_ReachedIsLastWritten ==
    (done_ev # NoDone /\ ~bus_we)
    => /\ address[done_ev.slot] = done_ev.last
       /\ address[done_ev.slot] = (done_ev.base + done_ev.fwc - 1) % AddrMod

\* C6 (amended): the address_reached published on completion is the value of
\* the address generator after the last commit, one past the last address
\* written: base + frame_word_count (in the address width) when
\* frame_word_count >= 1.
C6_ReachedIsOnePastLast ==
    (done_ev # NoDone /\ ~bus_we)
    => /\ status[done_ev.slot] = 2
       /\ address[done_ev.slot] = (done_ev.last + 1) % AddrMod
       /\ address[done_ev.slot] = (done_ev.base + done_ev.count) % AddrMod
       /\ done_ev.fwc >= 1 =>
             address[done_ev.slot] = (done_ev.base + done_ev.fwc) % AddrMod

C6_Witness ==
    /\ done_ev # NoDone
    /\ ~bus_we
    /\ bus_aw = 2
    /\ done_ev.fwc = 3
    /\ done_ev.count = 3
    /\ done_ev.base = 2
    /\ address[done_ev.slot] = 1
    /\ status[done_ev.slot] = 2

\* C7 (as stated): no clock edge changes a slot's address register.
C7_AddressConsumerOnly == [][ TickStep => address' = address ]_vars

\* C7 (amended): a clock edge changes a slot's address register only on
\* completion (EOF -> WAIT_SOF), only for the current slot, and the new
\* value is the address generator's value.
C7_AddressOnlyOnCompletion ==
    [][ TickStep =>
          \A n \in Slots :
             address'[n] # address[n] =>
                /\ fsm = "EOF" /\ fsm' = "WAIT_SOF"
                /\ n = current_slot
                /\ address'[n] = current_address ]_vars

C7_Witness ==
    /\ done_ev # NoDone
    /\ ~bus_we
    /\ done_ev.slot = done_ev.seed
    /\ address[done_ev.slot] # done_ev.base

\* C8: with no valid current slot in WAIT_SOF the stream is ready, the edge
\* issues no write, leaves the address generator primed (not advanced) and
\* stays in WAIT_SOF; WAIT_SOF is left only in a cycle with a valid current
\* slot and a valid start-of-frame word.
C8_NoSlotDropsFrame ==
    [][ TickStep =>
          /\ (fsm = "WAIT_SOF" /\ ~address_valid) =>
                /\ frame_ready
                /\ ~sink_valid
                /\ fsm' = "WAIT_SOF"
                /\ writes' = writes
                /\ wfifo' <= wfifo
                /\ current_address' = address[current_slot]
                /\ mwords_remaining' = frame_size
                /\ frame_valid => last_in' = "dropped"
          /\ (fsm = "WAIT_SOF" /\ fsm' # "WAIT_SOF") =>
                (address_valid /\ frame_valid /\ frame_sof) ]_vars

C8_Witness ==
    /\ fsm = "WAIT_SOF"
    /\ last_in = "dropped"
    /\ ~bus_we
    /\ \A n \in Slots : ~Loaded(n)
    /\ frame_valid /\ frame_sof
    /\ writes = << >>

\* C9: a word is committed only while words_remaining > 0, and a frame
\* transfer never commits more than frame_word_count words.
C9_NoCommitAtZero ==
    /\ count_word => mwords_remaining > 0
    /\ fsm # "WAIT_SOF" => Len(writes) <= fwc

\* C10: on the completion edge the current slot, and only it, gets status
\* Pending and address_reached; the edge leaves the status and address
\* registers of every other slot as they are.
C10_OnlyCurrentSlotCompleted ==
    [][ (TickStep /\ address_done) =>
          \A n \in Slots :
             IF n = current_slot
             THEN status'[n] = 2 /\ address'[n] = current_address
             ELSE status'[n] = status[n] /\ address'[n] = address[n] ]_vars

C10_Witness ==
    /\ done_ev # NoDone
    /\ ~bus_we
    /\ nslots = 3
    /\ status[done_ev.slot] = 2
    /\ \E n \in Slots : n # done_ev.slot /\ status[n] = 1
    /\ \E n \in Slots : n # done_ev.slot /\ address[n] # address[done_ev.slot]

\* C11 (as stated): a slot goes from Loaded to Pending only on the producer's
\* completion edge for that slot, never by a consumer write, and no clock
\* edge sets a Loaded bit.
C11_DisjointAuthority ==
    [][ /\ \A n \in Slots :
             (Loaded(n) /\ status'[n] = 2)
                => (TickStep /\ address_done /\ n = current_slot)
        /\ TickStep => \A n \in Slots : (status'[n] % 2 = 1) => Loaded(n) ]_vars

\* C11 (amended): the only change a clock edge makes to a status register is
\* to store Pending (2, Loaded bit clear) in the current slot on completion,
\* so the producer never sets a Loaded bit; a consumer write stores the value
\* written, Pending included.
C11_ProducerOnlyWritesPending ==
    [][ /\ TickStep =>
             \A n \in Slots :
                status'[n] # status[n] =>
                   /\ status'[n] = 2
                   /\ n = current_slot
                   /\ fsm = "EOF"
        /\ TickStep => \A n \in Slots : (status'[n] % 2 = 1) => Loaded(n)
        /\ ~TickStep =>
             \A n \in Slots : status'[n] # status[n] => status'[n] \in StatusVals
      ]_vars

C11_Witness ==
    /\ bus_we
    /\ fsm = "TRANSFER_PIXELS"
    /\ seed_touched
    /\ current_slot = seed_slot
    /\ status[seed_slot] = 2
    /\ Len(writes) >= 1

\* C13: a start-of-frame word presented in TRANSFER_PIXELS is handled as any
\* other word (no re-seed of the address generator, no restart); in EOF no
\* upstream word is accepted; a transfer begins only from WAIT_SOF, which is
\* entered with the write data drained.
C13_SecondSofIgnored ==
    [][ TickStep =>
          /\ (fsm = "TRANSFER_PIXELS" /\ frame_valid /\ frame_sof) =>
                /\ fsm' \in {"TRANSFER_PIXELS", "EOF"}
                /\ base' = base /\ fwc' = fwc /\ seed_slot' = seed_slot
                /\ IF sink_ready
                   THEN /\ current_address' = (current_address + 1) % AddrMod
                        /\ mwords_remaining' = (mwords_remaining - 1) % AddrMod
                        /\ writes' = Append(writes, current_address)
                   ELSE /\ current_address' = current_address
                        /\ mwords_remaining' = mwords_remaining
                        /\ writes' = writes
          /\ fsm = "EOF" =>
                /\ ~frame_ready
                /\ fsm' \in {"EOF", "WAIT_SOF"}
                /\ current_address' = current_address
                /\ frame_valid => (frame_valid' /\ frame_sof' = frame_sof
                                   /\ last_in' = "held")
          /\ (fsm' = "TRANSFER_PIXELS" /\ fsm # "TRANSFER_PIXELS") =>
                (fsm = "WAIT_SOF" /\ wfifo = 0 /\ writes' = << >>) ]_vars

C13_Witness ==
    /\ fsm = "EOF"
    /\ wdata_valid
    /\ eof_wait
    /\ frame_valid /\ frame_sof
    /\ last_in = "held"

\* C15: in TRANSFER_PIXELS a word is accepted exactly in the cycles in which
\* it is committed, at the next consecutive address (in the address width);
\* a word that is not accepted is held and nothing is written.
C15_AcceptedWrittenOnce ==
    [][ (TickStep /\ fsm = "TRANSFER_PIXELS") =>
          IF frame_valid /\ frame_ready
          THEN /\ writes' = Append(writes, (base + Len(writes)) % AddrMod)
               /\ current_address' = (base + Len(writes')) % AddrMod
               /\ wfifo' \in {wfifo, wfifo + 1}
               /\ last_in' = "written"
          ELSE /\ writes' = writes
               /\ current_address' = current_address
               /\ wfifo' <= wfifo
               /\ last_in' # "written"
               /\ frame_valid => (frame_valid' /\ frame_sof' = frame_sof) ]_vars

C15_Witness ==
    /\ fsm = "TRANSFER_PIXELS"
    /\ bus_aw = 2
    /\ fwc = 3
    /\ writes = <<base, (base + 1) % AddrMod>>
    /\ last_in = "held"
    /\ frame_valid
    /\ sink_ready

\* C14: the engine leaves WAIT_SOF only for TRANSFER_PIXELS and only in a
\* cycle where the slot (DMA) or the address_valid register (DMA_poll) is
\* valid, the upstream word is valid and tagged sof and, in DMA_poll, dma_go
\* is set; stream-ready is low in that cycle, so the sof word is still
\* presented in TRANSFER_PIXELS; the first word committed in a frame transfer
\* is tagged sof and is written at the base address.
C14_FirstWordIsSofAtBase ==
    [][ TickStep =>
          /\ (fsm = "WAIT_SOF" /\ fsm' # "WAIT_SOF") =>
                /\ fsm' = "TRANSFER_PIXELS"
                /\ frame_valid /\ frame_sof
                /\ IF nslots = 0
                   THEN /\ address_valid_storage /\ dma_go
                        /\ ~poll_frame_ready
                        /\ base' = start_address
                   ELSE /\ address_valid
                        /\ ~frame_ready
                        /\ base' = address[current_slot]
                /\ frame_valid' /\ frame_sof'
                /\ last_in' = "held"
                /\ writes' = << >>
                /\ current_address' = base'
          /\ (count_word /\ writes = << >>) =>
                /\ frame_sof
                /\ current_address = base
                /\ writes' = <<base>> ]_vars

C14_Witness ==
    /\ nslots = 0
    /\ fsm = "TRANSFER_PIXELS"
    /\ base = AddrMod - 1
    /\ writes = <<base>>
    /\ fwc = 2
    /\ last_in = "written"

\* C16 (as stated): in WAIT_SOF, in either variant, a valid upstream word is
\* accepted on the edge or the engine moves to TRANSFER_PIXELS on that edge.
C16_WaitSofNeverBlocks ==
    [][ (TickStep /\ fsm = "WAIT_SOF" /\ frame_valid) =>
          (last_in' # "held" \/ fsm' = "TRANSFER_PIXELS") ]_vars

\* C19: in DMA_poll a frame transfer starts only with dma_go set by a go
\* write made since the previous start; dma_go rises only on the write
\* strobe and is low after every edge with last_word and no strobe, in
\* particular after the edge that commits the last word of a frame.
C19_GoAuthorisesOneFrame ==
    [][ TickStep =>
          /\ poll_start_frame => (dma_go /\ go_credit)
          /\ (dma_go' /\ ~dma_go) => dma_go_re
          /\ (last_word /\ ~dma_go_re) => ~dma_go'
          /\ (fsm = "TRANSFER_PIXELS" /\ fsm' = "EOF" /\ ~dma_go_re) => ~dma_go'
      ]_vars

C19_Witness ==
    /\ fsm = "WAIT_SOF"
    /\ last_count_snapshot_r
    /\ done_ev # NoDone
    /\ done_ev.fwc = 1
    /\ ~dma_go /\ ~go_credit /\ ~dma_go_re
    /\ address_valid_storage
    /\ frame_valid /\ frame_sof
    /\ last_in = "held"

\* C20: in DMA_poll last_count_holding changes only on the EOF->WAIT_SOF
\* edge, taken with the write data drained, and then holds the address
\* generator's value after the last commit, which is the frame's start
\* address plus its frame size in the address width.
C20_HoldingSetOnDrainOnly ==
    [][ /\ last_count_holding' # last_count_holding =>
             (TickStep /\ fsm = "EOF" /\ fsm' = "WAIT_SOF" /\ wfifo = 0)
        /\ (TickStep /\ fsm = "EOF" /\ fsm' = "WAIT_SOF") =>
             /\ last_count_holding' = current_address
             /\ last_count_holding' = (base + fwc) % AddrMod
             /\ last_count_holding' = (writes[Len(writes)] + 1) % AddrMod ]_vars

C20_Witness ==
    /\ fsm = "TRANSFER_PIXELS"
    /\ Len(writes) >= 1
    /\ last_count_holding = 1
    /\ base = AddrMod - 1
    /\ current_address = 0

\* a word is written into the bridge FIFO on this step
BridgeWritten == Len(fifo') > Len(fifo)

\* C18 (as stated): every rising edge of vsync is answered by a sof word of
\* its own, and a word is written with sof=1 exactly when it is the first
\* word written after a rising edge.
C18_EachEdgeOneSofWord ==
    [][ /\ BridgeWritten => (fifo'[Len(fifo')] <=> sof_due)
        /\ edges_pending' <= 1 ]_vars

\* C18 (amended): a word is written with sof=1 exactly when it is the first
\* word written after a rising edge and the FIFO has refused no valid word
\* since that edge; so every sof word is the first word written after a
\* rising edge, and there is at most one per edge.
C18_SofWordIsFirstAfterEdge ==
    [][ /\ BridgeWritten =>
             /\ fifo' = Append(fifo, sink_sof)
             /\ sink_sof <=> (sof_due /\ ~lost)
             /\ sink_sof => (edges_pending >= 1 /\ (~sof_due' \/ new_frame))
        /\ sink_sof' => (sof_due' /\ ~lost') ]_vars

C18_Witness ==
    /\ fifo # << >>
    /\ fifo[Len(fifo)]
    /\ ~sof_due
    /\ edges_pending = 1
    /\ ~sink_sof

\* C12 (as stated): a slot that stays Loaded becomes the current slot after
\* at most nslots completed frame transfers, whatever the consumer writes to
\* the other slots.
C12_StarvationBounded == passed <= nslots

\* C12 (amended): counting from the last time the consumer set the Loaded bit
\* of another slot, at most nslots - 1 frame transfers complete while a slot
\* stays Loaded without being the current slot.
C12_BoundedUnlessRearmed == passed_quiet <= nslots - 1

C12_Witness ==
    /\ passed_quiet = nslots - 1
    /\ passed = nslots + 1
    /\ Loaded(WatchedSlot)
    /\ current_slot # WatchedSlot
    /\ fsm = "WAIT_SOF"

\* C17: from TRANSFER_PIXELS the engine only stays or goes to EOF, and from
\* EOF only stays or goes to WAIT_SOF, on every step, consumer writes
\* included; and with the upstream delivering and the transport ready and
\* draining, every frame transfer that has started reaches the completion
\* edge, which stores Pending in a slot's status.
C17_NoCancelAndCompletes ==
    /\ [][ /\ fsm = "TRANSFER_PIXELS" => fsm' \in {"TRANSFER_PIXELS", "EOF"}
           /\ fsm = "EOF" => fsm' \in {"EOF", "WAIT_SOF"}
           /\ ~TickStep => fsm' = fsm ]_vars
    /\ (fsm = "TRANSFER_PIXELS") ~> (fsm = "EOF")
    /\ (fsm = "TRANSFER_PIXELS") ~> (done_ev # NoDone /\ status[done_ev.slot] = 2)

C17_Witness ==
    /\ done_ev # NoDone
    /\ done_ev.slot # done_ev.seed
    /\ done_ev.waited
    /\ status[done_ev.slot] = 2
    /\ fsm = "WAIT_SOF"

====
